---- MODULE Spec2Model ----
(***************************************************************************)
(* The dispatch pipeline of nmt_decoder.py: the main thread (run_main,     *)
(* MainController.serve_forever and _close), the ExecutorThread workers    *)
(* and the PrinterThread, sharing two unbounded FIFO queues.               *)
(*                                                                         *)
(* Strings are sequences of one-character strings; None is the empty       *)
(* option <<>> and a present value x is <<x>>.  A JSON object is a record  *)
(* whose DOMAIN is its set of keys.                                        *)
(***************************************************************************)
EXTENDS Integers, Sequences, FiniteSets, TLC

\* Bounds of the model.
MaxThreads == 2      \* largest decoder.number_of_threads explored
MaxLines == 2        \* most request lines read from stdin
MaxStrLen == 3       \* longest source string of the codec specification

VARIABLES
    nthreads,     \* decoder.number_of_threads
    pc,           \* position of the main thread
    mi,           \* index of the main thread's current for loop
    exc,          \* exception pending in / propagating out of serve_forever
    inq,          \* self._in
    outq,         \* self._out
    wpc,          \* position of each ExecutorThread
    wreq,         \* each ExecutorThread's local `request`
    ppc,          \* position of the PrinterThread
    presp,        \* the PrinterThread's local `response`
    stdout,       \* lines written to self._stdout
    closed,       \* number of decoder.close() calls
    \* history variables (not program state)
    submitted,    \* ids of the requests put on self._in, in order
    sources,      \* source strings of the requests put on self._in, in order
    emitted,      \* for each line of stdout, the tag of the response written
    dequeued,     \* responses the PrinterThread took from self._out, in order
    ndeq,         \* for each submitted request, how often it was dequeued
    interrupted   \* a KeyboardInterrupt was raised in serve_forever's try

vars == <<nthreads, pc, mi, exc, inq, outq, wpc, wreq, ppc, presp, stdout, closed,
          submitted, sources, emitted, dequeued, ndeq, interrupted>>

hist == <<submitted, sources, emitted, dequeued, ndeq, interrupted>>

----------------------------------------------------------------------------
\* Values

None == <<>>
Some(x) == <<x>>

\* Request ids (opaque, not necessarily unique)
Ids == {1, 2}

\* Source strings of the request lines: "a b".
Sources == { <<"a", " ", "b">> }

POISON_PILL == "__POISON_PILL__"

\* Queue elements, tagged with their Python type.  `tag` is history only.
PillElem == [type |-> "str", value |-> POISON_PILL, tag |-> 0]
ReqElem(req, rid) == [type |-> "TranslationRequest", value |-> req, tag |-> rid]
RespElem(resp, t) == [type |-> "TranslationResponse", value |-> resp, tag |-> t]

\* isinstance(x, basestring) and x == MainController.POISON_PILL
\* Mutant: a payload whose text is the pill's text is taken for the pill
IsPoisonByText(e) ==
    IF e.type = "str" THEN e.value = POISON_PILL
    ELSE IF e.type = "TranslationRequest" THEN e.value.source = << <<POISON_PILL>> >>
    ELSE e.value.translation = Some(<< <<POISON_PILL>> >>)
IsPoison(e) == e.type = "str" /\ e.value = POISON_PILL

\* Mutant: a LIFO queue, the element is put at the front
QueuePutFront(q, e) == <<e>> \o q

\* Queue.put / Queue.get on an unbounded FIFO queue
QueuePut(q, e) == Append(q, e)
QueueHead(q) == Head(q)
QueueRest(q) == Tail(q)

----------------------------------------------------------------------------
\* Codec

\* s.split(' ')
RECURSIVE split(_)
\* Mutant: s.split(), which collapses runs of spaces and drops empty tokens
splitCollapsing(s) ==
    SelectSeq(IF \A i \in 1..Len(s) : s[i] # " " THEN <<s>>
              ELSE LET k == CHOOSE i \in 1..Len(s) :
                                s[i] = " " /\ \A j \in 1..(i - 1) : s[j] # " "
                   IN <<SubSeq(s, 1, k - 1)>> \o split(SubSeq(s, k + 1, Len(s))),
              LAMBDA t : t # <<>>)
split(s) ==
    IF \A i \in 1..Len(s) : s[i] # " " THEN <<s>>
    ELSE LET k == CHOOSE i \in 1..Len(s) :
                      s[i] = " " /\ \A j \in 1..(i - 1) : s[j] # " "
         IN <<SubSeq(s, 1, k - 1)>> \o split(SubSeq(s, k + 1, Len(s)))

\* ' '.join(tokens)
RECURSIVE join(_)
join(tokens) ==
    IF tokens = <<>> THEN <<>>
    ELSE IF Len(tokens) = 1 THEN tokens[1]
    ELSE tokens[1] \o <<" ">> \o join(Tail(tokens))

\* Input lines: a JSON object with id and source, or a line json.loads rejects.
ValidLines == { [json |-> TRUE, id |-> i, source |-> s] : i \in Ids, s \in Sources }
MalformedLine == [json |-> FALSE, id |-> 0, source |-> <<>>]

TranslationRequest(id, source, suggestions) ==
    [id |-> id, source |-> source, suggestions |-> suggestions]

\* TranslationRequest.from_json_string, for a line it accepts
from_json_string(line) == TranslationRequest(line.id, split(line.source), <<>>)

\* TranslationResponse.__init__(_id, translation=None, exception=None)
TranslationResponse(id, translation, exception) ==
    [id |-> id,
     translation |-> translation,
     error_type |-> IF exception # None THEN Some(exception[1].type) ELSE None,
     error_message |-> IF exception # None /\ exception[1].message # <<>>
                       THEN Some(exception[1].message) ELSE None]

\* TranslationResponse.to_json_string: the JSON object of the line
to_json_string(r) ==
    IF r.translation # None
    THEN [id |-> r.id, translation |-> join(r.translation[1])]
    ELSE LET error == IF r.error_message # None
                      THEN [type |-> r.error_type, message |-> r.error_message[1]]
                      ELSE [type |-> r.error_type]
         IN [id |-> r.id, error |-> error]

\* What decoder.translate(source, suggestions) does in the pipeline runs: it
\* returns the tokens of a translation (here the source tokens) or raises
\* with a message.  EngineValue and EngineException also give the results
\* "empty" (an empty list), "none" (None) and "raise_nomsg" (no message).
EngineOutcomes == {"tokens", "raise_msg"}
Raises(o) == o \in {"raise_msg", "raise_nomsg"}
EngineValue(o, source) ==
    IF o = "tokens" THEN Some(source)
    ELSE IF o = "empty" THEN Some(<<>>)
    ELSE None
EngineException(o) ==
    [type |-> "RuntimeError",
     message |-> IF o = "raise_msg" THEN <<"e">> ELSE <<>>]

\* Lines 75-80: the response the worker builds for an engine outcome
BuildResponse(req, o) ==
    IF Raises(o)
    THEN TranslationResponse(req.id, None, Some(EngineException(o)))
    ELSE TranslationResponse(req.id, EngineValue(o, req.source), None)

----------------------------------------------------------------------------
\* State

Workers == 1..nthreads

RunningPcs == {"start_printer", "start_workers", "readline"}
ClosePcs == {"clear_in", "clear_out", "put_pills", "put_out_pill",
             "join_workers", "join_printer"}

NoReq == ReqElem(TranslationRequest(0, <<>>, <<>>), 0)
NoResp == RespElem(TranslationResponse(0, None, None), [rid |-> 0, outcome |-> "none"])

Init ==
    /\ nthreads \in 1..MaxThreads
    /\ pc = "created"
    /\ mi = 0
    /\ exc = "None"
    /\ inq = <<>>
    /\ outq = <<>>
    /\ wpc = [w \in 1..nthreads |-> "unstarted"]
    /\ wreq = [w \in 1..nthreads |-> NoReq]
    /\ ppc = "unstarted"
    /\ presp = NoResp
    /\ stdout = <<>>
    /\ closed = 0
    /\ submitted = <<>>
    /\ sources = <<>>
    /\ emitted = <<>>
    /\ dequeued = <<>>
    /\ ndeq = <<>>
    /\ interrupted = FALSE

----------------------------------------------------------------------------
\* Main thread: serve_forever

\* controller.serve_forever() is called
ServeForever ==
    /\ pc = "created"
    /\ pc' = "start_printer"
    /\ UNCHANGED <<nthreads, mi, exc, inq, outq, wpc, wreq, ppc, presp, stdout, closed>>
    /\ UNCHANGED hist

\* self._printer.start()
StartPrinter ==
    /\ pc = "start_printer"
    /\ ppc' = "get"
    /\ pc' = "start_workers"
    /\ mi' = 1
    /\ UNCHANGED <<nthreads, exc, inq, outq, wpc, wreq, presp, stdout, closed>>
    /\ UNCHANGED hist

\* Mutant: serve_forever starts the first worker only and goes on to read
StartWorkerFirstOnly ==
    /\ pc = "start_workers"
    /\ wpc' = [wpc EXCEPT ![mi] = "get"]
    /\ mi' = mi + 1
    /\ pc' = "readline"
    /\ UNCHANGED <<nthreads, exc, inq, outq, wreq, ppc, presp, stdout, closed>>
    /\ UNCHANGED hist

\* for worker in self._workers: worker.start()
StartWorker ==
    /\ pc = "start_workers"
    /\ wpc' = [wpc EXCEPT ![mi] = "get"]
    /\ mi' = mi + 1
    /\ pc' = IF mi + 1 > nthreads THEN "readline" ELSE "start_workers"
    /\ UNCHANGED <<nthreads, exc, inq, outq, wreq, ppc, presp, stdout, closed>>
    /\ UNCHANGED hist

\* readline returns a line that parses: the request is put on self._in
ReadRequestFrom(lines) ==
    /\ pc = "readline"
    /\ Len(submitted) < MaxLines
    /\ \E line \in lines :
          /\ inq' = QueuePut(inq, ReqElem(from_json_string(line), Len(submitted) + 1))
          /\ submitted' = Append(submitted, line.id)
          /\ sources' = Append(sources, line.source)
    /\ ndeq' = Append(ndeq, 0)
    /\ UNCHANGED <<nthreads, pc, mi, exc, outq, wpc, wreq, ppc, presp, stdout, closed>>
    /\ UNCHANGED <<emitted, dequeued, interrupted>>

ReadRequest == ReadRequestFrom(ValidLines)

\* The same for input whose request lines all carry the id 1
ReadRequestOneId == ReadRequestFrom({line \in ValidLines : line.id = 1})

\* Mutant: the parse error leaves serve_forever without running _close
ReadMalformedSkipsClose ==
    /\ pc = "readline"
    /\ ~MalformedLine.json
    /\ exc' = "ValueError"
    /\ pc' = "decoder_close"
    /\ UNCHANGED <<nthreads, mi, inq, outq, wpc, wreq, ppc, presp, stdout, closed>>
    /\ UNCHANGED hist

\* readline returns a line from_json_string raises on: finally: self._close()
ReadMalformed ==
    /\ pc = "readline"
    /\ ~MalformedLine.json
    /\ exc' = "ValueError"
    /\ pc' = "clear_in"
    /\ UNCHANGED <<nthreads, mi, inq, outq, wpc, wreq, ppc, presp, stdout, closed>>
    /\ UNCHANGED hist

\* readline returns '': break, then finally: self._close()
ReadEOF ==
    /\ pc = "readline"
    /\ pc' = "clear_in"
    /\ UNCHANGED <<nthreads, mi, exc, inq, outq, wpc, wreq, ppc, presp, stdout, closed>>
    /\ UNCHANGED hist

\* KeyboardInterrupt raised inside the try block: except: pass, finally: self._close()
KeyboardInterrupt ==
    /\ pc \in RunningPcs
    /\ pc' = "clear_in"
    /\ interrupted' = TRUE
    /\ UNCHANGED <<nthreads, mi, exc, inq, outq, wpc, wreq, ppc, presp, stdout, closed>>
    /\ UNCHANGED <<submitted, sources, emitted, dequeued, ndeq>>

----------------------------------------------------------------------------
\* Main thread: _close

\* Mutant: _close leaves the request queue as it is
ClearInKeeps ==
    /\ pc = "clear_in"
    /\ inq' = inq
    /\ pc' = "clear_out"
    /\ UNCHANGED <<nthreads, mi, exc, outq, wpc, wreq, ppc, presp, stdout, closed>>
    /\ UNCHANGED hist

\* with self._in.mutex: self._in.queue.clear()
ClearIn ==
    /\ pc = "clear_in"
    /\ inq' = <<>>
    /\ pc' = "clear_out"
    /\ UNCHANGED <<nthreads, mi, exc, outq, wpc, wreq, ppc, presp, stdout, closed>>
    /\ UNCHANGED hist

\* with self._out.mutex: self._out.queue.clear()
ClearOut ==
    /\ pc = "clear_out"
    /\ outq' = <<>>
    /\ pc' = "put_pills"
    /\ mi' = 1
    /\ UNCHANGED <<nthreads, exc, inq, wpc, wreq, ppc, presp, stdout, closed>>
    /\ UNCHANGED hist

\* Mutant: one poison pill for the whole pool instead of one per worker
PutPillOnce ==
    /\ pc = "put_pills"
    /\ inq' = Append(inq, PillElem)
    /\ mi' = nthreads + 1
    /\ pc' = "put_out_pill"
    /\ UNCHANGED <<nthreads, exc, outq, wpc, wreq, ppc, presp, stdout, closed>>
    /\ UNCHANGED hist

\* for _ in self._workers: self._in.put(POISON_PILL)
PutPill ==
    /\ pc = "put_pills"
    /\ inq' = QueuePut(inq, PillElem)
    /\ mi' = mi + 1
    /\ pc' = IF mi + 1 > nthreads THEN "put_out_pill" ELSE "put_pills"
    /\ UNCHANGED <<nthreads, exc, outq, wpc, wreq, ppc, presp, stdout, closed>>
    /\ UNCHANGED hist

\* self._out.put(POISON_PILL)
PutOutPill ==
    /\ pc = "put_out_pill"
    /\ outq' = QueuePut(outq, PillElem)
    /\ pc' = "join_workers"
    /\ mi' = 1
    /\ UNCHANGED <<nthreads, exc, inq, wpc, wreq, ppc, presp, stdout, closed>>
    /\ UNCHANGED hist

\* for worker in self._workers: worker.join(): every join has returned once
\* every worker has exited
JoinWorkers ==
    /\ pc = "join_workers"
    /\ \A w \in Workers : wpc[w] = "exited"
    /\ pc' = "join_printer"
    /\ UNCHANGED <<nthreads, mi, exc, inq, outq, wpc, wreq, ppc, presp, stdout, closed>>
    /\ UNCHANGED hist

\* worker.join() on a thread that was never started raises RuntimeError,
\* which leaves _close and serve_forever; the workers before it were joined
JoinUnstarted ==
    /\ pc = "join_workers"
    /\ \E k \in Workers : /\ wpc[k] = "unstarted"
                          /\ \A j \in 1..(k - 1) : wpc[j] = "exited"
    /\ exc' = "RuntimeError"
    /\ pc' = "decoder_close"
    /\ UNCHANGED <<nthreads, mi, inq, outq, wpc, wreq, ppc, presp, stdout, closed>>
    /\ UNCHANGED hist

\* self._printer.join(), then serve_forever is left.  (The printer is started
\* before any worker, so it is started whenever every worker join returned.)
JoinPrinter ==
    /\ pc = "join_printer"
    /\ ppc = "exited"
    /\ pc' = "decoder_close"
    /\ UNCHANGED <<nthreads, mi, exc, inq, outq, wpc, wreq, ppc, presp, stdout, closed>>
    /\ UNCHANGED hist

\* run_main's finally: decoder.close()
DecoderClose ==
    /\ pc = "decoder_close"
    /\ closed' = closed + 1
    /\ pc' = "done"
    /\ UNCHANGED <<nthreads, mi, exc, inq, outq, wpc, wreq, ppc, presp, stdout>>
    /\ UNCHANGED hist

----------------------------------------------------------------------------
\* ExecutorThread.run

\* Mutant: the worker reads the head of the queue without removing it
WorkerGetRequestPeek(w) ==
    /\ wpc[w] = "get"
    /\ inq # <<>>
    /\ ~IsPoison(Head(inq))
    /\ inq' = inq
    /\ wreq' = [wreq EXCEPT ![w] = Head(inq)]
    /\ wpc' = [wpc EXCEPT ![w] = "translate"]
    /\ ndeq' = [ndeq EXCEPT ![Head(inq).tag] = @ + 1]
    /\ UNCHANGED <<nthreads, pc, mi, exc, outq, ppc, presp, stdout, closed>>
    /\ UNCHANGED <<submitted, sources, emitted, dequeued, interrupted>>

\* request = self._in.get(): a TranslationRequest; translate is called
WorkerGetRequest(w) ==
    /\ wpc[w] = "get"
    /\ inq # <<>>
    /\ ~IsPoison(QueueHead(inq))
    /\ inq' = QueueRest(inq)
    /\ wreq' = [wreq EXCEPT ![w] = QueueHead(inq)]
    /\ wpc' = [wpc EXCEPT ![w] = "translate"]
    /\ ndeq' = [ndeq EXCEPT ![QueueHead(inq).tag] = @ + 1]
    /\ UNCHANGED <<nthreads, pc, mi, exc, outq, ppc, presp, stdout, closed>>
    /\ UNCHANGED <<submitted, sources, emitted, dequeued, interrupted>>

\* Mutant: the worker consumes the poison pill and keeps looping
WorkerGetPoisonContinues(w) ==
    /\ wpc[w] = "get"
    /\ inq # <<>>
    /\ IsPoison(Head(inq))
    /\ inq' = Tail(inq)
    /\ UNCHANGED <<nthreads, pc, mi, exc, outq, wpc, wreq, ppc, presp, stdout, closed>>
    /\ UNCHANGED hist

\* request = self._in.get(): the poison pill; break
WorkerGetPoison(w) ==
    /\ wpc[w] = "get"
    /\ inq # <<>>
    /\ IsPoison(QueueHead(inq))
    /\ inq' = QueueRest(inq)
    /\ wpc' = [wpc EXCEPT ![w] = "exited"]
    /\ UNCHANGED <<nthreads, pc, mi, exc, outq, wreq, ppc, presp, stdout, closed>>
    /\ UNCHANGED hist

\* Mutant: a failure of the engine is swallowed, no response is put
WorkerRespondDropsFailure(w) ==
    /\ wpc[w] = "translate"
    /\ \E o \in EngineOutcomes :
          outq' = IF Raises(o) THEN outq
                  ELSE Append(outq, RespElem(BuildResponse(wreq[w].value, o),
                                             [rid |-> wreq[w].tag, outcome |-> o]))
    /\ wpc' = [wpc EXCEPT ![w] = "get"]
    /\ wreq' = [wreq EXCEPT ![w] = NoReq]
    /\ UNCHANGED <<nthreads, pc, mi, exc, inq, ppc, presp, stdout, closed>>
    /\ UNCHANGED <<submitted, sources, emitted, dequeued, ndeq, interrupted>>

\* Mutant: the put is inside the try as well as after it, so that a
\* translated request's response is put twice
WorkerRespondPutsTwice(w) ==
    /\ wpc[w] = "translate"
    /\ \E o \in EngineOutcomes :
          LET e == RespElem(BuildResponse(wreq[w].value, o),
                            [rid |-> wreq[w].tag, outcome |-> o])
          IN outq' = IF Raises(o) THEN Append(outq, e)
                     ELSE Append(Append(outq, e), e)
    /\ wpc' = [wpc EXCEPT ![w] = "get"]
    /\ wreq' = [wreq EXCEPT ![w] = NoReq]
    /\ UNCHANGED <<nthreads, pc, mi, exc, inq, ppc, presp, stdout, closed>>
    /\ UNCHANGED <<submitted, sources, emitted, dequeued, ndeq, interrupted>>

\* Mutant: a failure of the engine is not caught and ends the worker thread
WorkerRespondDies(w) ==
    /\ wpc[w] = "translate"
    /\ \E o \in EngineOutcomes :
          /\ outq' = IF Raises(o) THEN outq
                     ELSE Append(outq, RespElem(BuildResponse(wreq[w].value, o),
                                                [rid |-> wreq[w].tag, outcome |-> o]))
          /\ wpc' = [wpc EXCEPT ![w] = IF Raises(o) THEN "exited" ELSE "get"]
    /\ wreq' = [wreq EXCEPT ![w] = NoReq]
    /\ UNCHANGED <<nthreads, pc, mi, exc, inq, ppc, presp, stdout, closed>>
    /\ UNCHANGED <<submitted, sources, emitted, dequeued, ndeq, interrupted>>

\* Lines 75-82: translate returns or raises, the response is built and put.
\* The local `request` is dead until the next get and is reset here.
WorkerRespond(w) ==
    /\ wpc[w] = "translate"
    /\ \E o \in EngineOutcomes :
          outq' = QueuePut(outq, RespElem(BuildResponse(wreq[w].value, o),
                                          [rid |-> wreq[w].tag, outcome |-> o]))
    /\ wpc' = [wpc EXCEPT ![w] = "get"]
    /\ wreq' = [wreq EXCEPT ![w] = NoReq]
    /\ UNCHANGED <<nthreads, pc, mi, exc, inq, ppc, presp, stdout, closed>>
    /\ UNCHANGED <<submitted, sources, emitted, dequeued, ndeq, interrupted>>

----------------------------------------------------------------------------
\* PrinterThread.run

\* Mutant: the writer takes the newest element of the queue, not the oldest
PrinterGetResponseNewest ==
    /\ ppc = "get"
    /\ outq # <<>>
    /\ ~IsPoison(outq[Len(outq)])
    /\ outq' = SubSeq(outq, 1, Len(outq) - 1)
    /\ presp' = outq[Len(outq)]
    /\ dequeued' = Append(dequeued, outq[Len(outq)])
    /\ ppc' = "write"
    /\ UNCHANGED <<nthreads, pc, mi, exc, inq, wpc, wreq, stdout, closed>>
    /\ UNCHANGED <<submitted, sources, emitted, ndeq, interrupted>>

\* response = self._q.get(): a TranslationResponse
PrinterGetResponse ==
    /\ ppc = "get"
    /\ outq # <<>>
    /\ ~IsPoison(QueueHead(outq))
    /\ outq' = QueueRest(outq)
    /\ presp' = QueueHead(outq)
    /\ dequeued' = Append(dequeued, QueueHead(outq))
    /\ ppc' = "write"
    /\ UNCHANGED <<nthreads, pc, mi, exc, inq, wpc, wreq, stdout, closed>>
    /\ UNCHANGED <<submitted, sources, emitted, ndeq, interrupted>>

\* response = self._q.get(): the poison pill; break
PrinterGetPoison ==
    /\ ppc = "get"
    /\ outq # <<>>
    /\ IsPoison(QueueHead(outq))
    /\ outq' = QueueRest(outq)
    /\ ppc' = "exited"
    /\ UNCHANGED <<nthreads, pc, mi, exc, inq, wpc, wreq, presp, stdout, closed>>
    /\ UNCHANGED hist

\* Mutant: the writer writes only the responses that carry a translation
PrinterWriteSkipsErrors ==
    /\ ppc = "write"
    /\ stdout' = IF presp.value.translation # None
                 THEN Append(stdout, to_json_string(presp.value)) ELSE stdout
    /\ emitted' = IF presp.value.translation # None
                  THEN Append(emitted, presp.tag) ELSE emitted
    /\ presp' = NoResp
    /\ ppc' = "get"
    /\ UNCHANGED <<nthreads, pc, mi, exc, inq, outq, wpc, wreq, closed>>
    /\ UNCHANGED <<submitted, sources, dequeued, ndeq, interrupted>>

\* self._stdout.write(response.to_json_string()); write('\n'); flush().
\* The local `response` is dead until the next get and is reset here.
PrinterWrite ==
    /\ ppc = "write"
    /\ stdout' = Append(stdout, to_json_string(presp.value))
    /\ emitted' = Append(emitted, presp.tag)
    /\ presp' = NoResp
    /\ ppc' = "get"
    /\ UNCHANGED <<nthreads, pc, mi, exc, inq, outq, wpc, wreq, closed>>
    /\ UNCHANGED <<submitted, sources, dequeued, ndeq, interrupted>>

----------------------------------------------------------------------------
\* Specifications

MainStep ==
    \/ ServeForever
    \/ StartPrinter
    \/ StartWorker
    \/ ReadMalformed
    \/ ReadEOF
    \/ KeyboardInterrupt

CloseStep ==
    \/ ClearIn
    \/ ClearOut
    \/ PutPill
    \/ PutOutPill
    \/ JoinWorkers
    \/ JoinUnstarted
    \/ JoinPrinter
    \/ DecoderClose

WorkerStep(w) ==
    \/ WorkerGetRequest(w)
    \/ WorkerGetPoison(w)
    \/ WorkerRespond(w)

PrinterStep ==
    \/ PrinterGetResponse
    \/ PrinterGetPoison
    \/ PrinterWrite

Next ==
    \/ ReadRequest
    \/ MainStep
    \/ CloseStep
    \/ \E w \in Workers : WorkerStep(w)
    \/ PrinterStep

Spec == Init /\ [][Next]_vars

\* A step of a started thread other than the main thread's wait for input
Progress ==
    \/ CloseStep
    \/ \E w \in Workers : WorkerStep(w)
    \/ PrinterStep

\* The pipeline on input whose request lines all carry the same id (the
\* pipeline only copies the id)
NextOneId ==
    \/ ReadRequestOneId
    \/ MainStep
    \/ CloseStep
    \/ \E w \in Workers : WorkerStep(w)
    \/ PrinterStep

\* Threads are scheduled fairly and every engine call returns or raises, so
\* the threads do not all stand still while one of them can take a step.
\* Input may never arrive: reading a line is not fair.  Every behaviour is
\* finite up to stuttering, so this is as strong here as fairness per thread.
FairSpec == Init /\ [][NextOneId]_vars /\ WF_vars(Progress)

----------------------------------------------------------------------------
\* Notions the properties share

Running == pc \in RunningPcs
Draining == pc \in ClosePcs
\* _close has returned: every worker and the writer were joined
Stopped == pc \in {"decoder_close", "done"} /\ exc # "RuntimeError"

AllStarted == ppc # "unstarted" /\ \A w \in Workers : wpc[w] # "unstarted"
AllExited == ppc = "exited" /\ \A w \in Workers : wpc[w] = "exited"

Rids == 1..Len(submitted)
\* how many lines of the output answer request r
EmitCount(r) == Cardinality({i \in 1..Len(emitted) : emitted[i].rid = r})
\* how many entries of a sequence of ids are x
IdCount(ids, x) == Cardinality({i \in 1..Len(ids) : ids[i] = x})
OutIds == [i \in 1..Len(stdout) |-> stdout[i].id]
\* every line carries the id of the request it answers
IdsEchoed == \A i \in 1..Len(stdout) : stdout[i].id = submitted[emitted[i].rid]
\* some response was written before the response of an earlier request
Inverted == \E i, j \in 1..Len(emitted) : i < j /\ emitted[i].rid > emitted[j].rid
Quiescent ==
    /\ inq = <<>>
    /\ outq = <<>>
    /\ ppc = "get"
    /\ \A w \in Workers : wpc[w] = "get"

----------------------------------------------------------------------------
C2_DequeuedBeforeDrainDelivered ==
    \A r \in 1..MaxLines :
        (Running /\ r \in Rids /\ ndeq[r] >= 1) ~> (EmitCount(r) = 1)

C5_ShutdownTerminates ==
    /\ (Draining /\ AllStarted) ~> Stopped
    /\ [](Stopped => (AllExited /\ inq = <<>>))

\* stopped with a full pool while a request was dropped by the drain
C5_Witness ==
    /\ Stopped
    /\ nthreads = MaxThreads
    /\ Len(stdout) < Len(submitted)

\* C6: no request is dequeued more than once, no id occurs on more output
\* lines than requests were submitted with it, and every output line carries
\* the id of a submitted request.
C6_NoDuplicatedOrInvented ==
    /\ \A r \in Rids : ndeq[r] <= 1
    /\ \A x \in Ids : IdCount(OutIds, x) <= IdCount(submitted, x)
    /\ \A i \in 1..Len(stdout) : \E r \in Rids : submitted[r] = stdout[i].id

\* two requests with the same id, each answered by its own line
C6_Witness ==
    /\ Len(stdout) = 2
    /\ stdout[1].id = stdout[2].id
    /\ IdCount(submitted, stdout[1].id) = 2

\* C7: with more than one worker, whenever the controller is Running and the
\* pipeline is quiescent, each id occurs on the output as often as among the
\* submitted requests.
C7_QuiescentAllAnswered ==
    (nthreads > 1 /\ Running /\ Quiescent) =>
        \A x \in Ids : IdCount(OutIds, x) = IdCount(submitted, x)

\* quiescent with two workers after two requests answered out of order
C7_Witness ==
    /\ nthreads > 1
    /\ Running
    /\ Quiescent
    /\ Len(stdout) = 2
    /\ Inverted

\* C8: a response is written before the response of an earlier request only
\* when the pool has at least two workers (and with two workers it does
\* happen: C8_Witness is reached).
C8_InversionNeedsTwoWorkers ==
    Inverted => nthreads >= 2

\* request 1 enqueued before request 2, and request 2 answered first
C8_Witness ==
    /\ nthreads >= 2
    /\ Len(emitted) = 2
    /\ emitted[1].rid = 2
    /\ emitted[2].rid = 1

\* C9: after a KeyboardInterrupt in serve_forever's try block, serve_forever
\* is left only with no exception propagating and with every worker and the
\* writer exited.
C9_InterruptIsCleanShutdown ==
    (interrupted /\ pc \in {"decoder_close", "done"}) =>
        (exc = "None" /\ AllExited)

\* C10: decoder.close() is called at most once, only when every worker and
\* the writer have been joined, and exactly once when run_main is done.
C10_CloseOnceAfterStopped ==
    /\ closed >= 1 => (closed = 1 /\ AllExited)
    /\ pc = "done" => closed = 1

----------------------------------------------------------------------------
\* C11: a request that a worker dequeued (necessarily before the request
\* queue was cleared) has its response written by the writer before that
\* worker dequeues its poison pill; so once every worker and the writer
\* have exited, each dequeued request has its line on the output.
C11_DeliveredBeforePill ==
    AllExited =>
        \A r \in Rids : ndeq[r] >= 1 => EmitCount(r) = 1

\* Poison pills on a queue, workers that have exited, and the pills _close
\* has put so far at each position of the main thread
NumPills(q) == Cardinality({i \in 1..Len(q) : IsPoison(q[i])})
NumExited == Cardinality({w \in Workers : wpc[w] = "exited"})
AfterPills == {"put_out_pill", "join_workers", "join_printer", "decoder_close", "done"}
PillsPutIn ==
    IF pc = "put_pills" THEN mi - 1
    ELSE IF pc \in AfterPills THEN nthreads
    ELSE 0
PillsPutOut == IF pc \in AfterPills \ {"put_out_pill"} THEN 1 ELSE 0

\* C12: the pills on the request queue plus the workers that have exited are
\* exactly the pills _close has put so far: none before both queues were
\* cleared, one per worker (N) in the end; likewise exactly one for the
\* writer.  Once the request queue was cleared it holds nothing but pills.
\* A worker exits only by dequeuing one pill, and a worker that has exited
\* takes no further step: it dequeues nothing, calls no engine, puts nothing.
C12_OnePillPerWorker ==
    /\ [](/\ NumPills(inq) + NumExited = PillsPutIn
          /\ NumPills(outq) + (IF ppc = "exited" THEN 1 ELSE 0) = PillsPutOut
          /\ pc \in {"clear_out", "put_pills"} \cup AfterPills =>
                 NumPills(inq) = Len(inq))
    /\ [][\A w \in Workers :
             /\ wpc[w] = "exited" => wpc'[w] = "exited"
             /\ (wpc[w] # "exited" /\ wpc'[w] = "exited") =>
                    /\ wpc[w] = "get"
                    /\ IsPoison(Head(inq))
                    /\ inq' = Tail(inq)
                    /\ outq' = outq]_vars

\* two workers: one has taken its pill, the other's pill is still queued
C12_Witness ==
    /\ nthreads >= 2
    /\ NumExited >= 1
    /\ NumPills(inq) >= 1
    /\ NumPills(outq) = 1

\* Where the work for request r can be: on the request queue, in a worker's
\* hands, on the response queue, in the writer's hands
InReqQueue(r) == \E i \in 1..Len(inq) : ~IsPoison(inq[i]) /\ inq[i].tag = r
InWorker(r) == \E w \in Workers : wpc[w] = "translate" /\ wreq[w].tag = r
InRespQueue(r) == \E i \in 1..Len(outq) : ~IsPoison(outq[i]) /\ outq[i].tag.rid = r
InPrinter(r) == ppc = "write" /\ presp.tag.rid = r
\* request r is gone from the pipeline without a line on the output
Dropped(r) ==
    /\ r \in Rids
    /\ ~InReqQueue(r) /\ ~InWorker(r) /\ ~InRespQueue(r) /\ ~InPrinter(r)
    /\ EmitCount(r) = 0

\* C13: clearing the request queue drops every request that was on it: none
\* of them was or ever is dequeued by a worker (so the engine never sees it)
\* and no line is ever written for it.  Clearing the response queue drops
\* every response that was on it: it is never written.  What was dropped
\* stays dropped.
C13_DrainDropsUndispatched ==
    /\ [][(pc = "clear_in" /\ pc' = "clear_out") =>
              \A r \in Rids : InReqQueue(r) => ndeq[r] = 0 /\ Dropped(r)']_vars
    /\ [][(pc = "clear_out" /\ pc' = "put_pills") =>
              \A r \in Rids : InRespQueue(r) => Dropped(r)']_vars
    /\ [][\A r \in Rids : Dropped(r) => Dropped(r)' /\ ndeq'[r] = ndeq[r]]_vars

\* stopped with one request dropped from the request queue and one response
\* dropped from the response queue
C13_Witness ==
    /\ Stopped
    /\ \E r \in Rids : Dropped(r) /\ ndeq[r] = 0
    /\ \E r \in Rids : Dropped(r) /\ ndeq[r] = 1

\* the lines of the responses in a sequence of queue elements
LinesOf(elems) == [i \in 1..Len(elems) |-> to_json_string(elems[i].value)]
\* the dequeued responses whose write and flush have completed: all of them,
\* but for the one the writer holds between get() and flush()
WrittenOut ==
    IF ppc = "write" THEN SubSeq(dequeued, 1, Len(dequeued) - 1) ELSE dequeued

\* C14: the lines on the output are exactly the lines of the responses the
\* writer has dequeued, in dequeue order, one line each; the only dequeued
\* response not yet on the output is the one the writer holds, and it is
\* written before the next dequeue.  The writer always takes the oldest
\* element of the response queue, and nothing else reorders that queue.
C14_WriterFifo ==
    /\ [](/\ stdout = LinesOf(WrittenOut)
          /\ ppc = "write" => dequeued # <<>> /\ presp = dequeued[Len(dequeued)]
          /\ \A i \in 1..Len(dequeued) : ~IsPoison(dequeued[i]))
    /\ [][/\ dequeued' # dequeued =>
                 /\ ppc = "get" /\ ppc' = "write"
                 /\ dequeued' = Append(dequeued, Head(outq))
                 /\ outq' = Tail(outq)
                 /\ stdout' = stdout
          /\ stdout' # stdout =>
                 /\ ppc = "write" /\ ppc' = "get"
                 /\ stdout' = Append(stdout, to_json_string(presp.value))
                 /\ outq' = outq /\ dequeued' = dequeued
          /\ \/ outq' = <<>>
             \/ Len(outq') = Len(outq) /\ outq' = outq
             \/ Len(outq') = Len(outq) - 1 /\ outq' = Tail(outq)
             \/ Len(outq') = Len(outq) + 1 /\ SubSeq(outq', 1, Len(outq)) = outq]_vars

\* the writer has written one line and holds the next response, taken from
\* a queue on which a third element is waiting
C14_Witness ==
    /\ Len(stdout) = 1
    /\ ppc = "write"
    /\ Len(dequeued) = 2
    /\ outq # <<>>

\* The controller's state by the position of the main thread: 0 Created,
\* 1 Running (serve_forever before _close), 2 Draining (_close), 3 Stopped
\* (_close has returned or raised)
Phase ==
    IF pc = "created" THEN 0
    ELSE IF pc \in RunningPcs THEN 1
    ELSE IF pc \in ClosePcs THEN 2
    ELSE 3
NumReqs(q) == Cardinality({i \in 1..Len(q) : ~IsPoison(q[i])})

\* C15: the controller's state never goes back and skips none of Created,
\* Running, Draining, Stopped; whenever the main thread is at readline, and
\* whenever a request has been submitted, the writer and every worker have
\* been started; from Draining on no step reads a line, the submitted
\* requests stay as they are and no request is added to the request queue.
C15_ForwardOnly ==
    /\ []((pc = "readline" \/ submitted # <<>>) => AllStarted)
    /\ [][/\ Phase' \in {Phase, Phase + 1}
          /\ Phase >= 2 =>
                 /\ ~(ReadRequest \/ ReadMalformed \/ ReadEOF)
                 /\ submitted' = submitted
                 /\ NumReqs(inq') <= NumReqs(inq)]_vars

\* Draining with both pool threads started, a request read and still queued
C15_Witness ==
    /\ pc = "clear_in"
    /\ nthreads = 2
    /\ submitted # <<>>
    /\ NumReqs(inq) >= 1

\* a is a subsequence of b
RECURSIVE IsSubseq(_, _)
IsSubseq(a, b) ==
    IF a = <<>> THEN TRUE
    ELSE IF b = <<>> THEN FALSE
    ELSE IF Head(a) = Head(b) THEN IsSubseq(Tail(a), Tail(b))
    ELSE IsSubseq(a, Tail(b))

\* C19: with a pool of one worker the lines on the output belong to
\* requests in strictly increasing submission position, each line carrying
\* the id of its request; so the ids on the output are a subsequence of the
\* submitted ids.
C19_OneWorkerKeepsOrder ==
    nthreads = 1 =>
        /\ \A i, j \in 1..Len(emitted) : i < j => emitted[i].rid < emitted[j].rid
        /\ Len(emitted) = Len(stdout)
        /\ IdsEchoed
        /\ IsSubseq(OutIds, submitted)

\* one worker, two requests with different ids, both answered
C19_Witness ==
    /\ nthreads = 1
    /\ Len(stdout) = 2
    /\ stdout[1].id # stdout[2].id

\* the order of the main thread's positions from _close on
CloseOrder ==
    { <<"clear_in", "clear_out">>, <<"clear_out", "put_pills">>,
      <<"put_pills", "put_out_pill">>, <<"put_out_pill", "join_workers">>,
      <<"join_workers", "join_printer">>, <<"join_printer", "decoder_close">>,
      <<"decoder_close", "done">> }

\* C20: the step on which parsing raises is taken at readline, puts nothing
\* on the request queue, submits nothing and enters _close.  From then on
\* the error stays pending, no line is read, nothing is submitted or added
\* to the request queue, and the main thread walks the whole of _close in
\* order: clear both queues, put the pills, join the workers and the writer.
\* The error is out of serve_forever only when every worker and the writer
\* have exited and the request queue is empty.
C20_MalformedEndsIngestion ==
    /\ []((exc = "ValueError" /\ pc \in {"decoder_close", "done"}) =>
              AllExited /\ inq = <<>>)
    /\ [][(exc # "ValueError" /\ exc' = "ValueError") =>
              /\ pc = "readline" /\ pc' = "clear_in"
              /\ inq' = inq
              /\ submitted' = submitted]_vars
    /\ [][exc = "ValueError" =>
              /\ exc' = "ValueError"
              /\ ~(ReadRequest \/ ReadMalformed \/ ReadEOF)
              /\ submitted' = submitted
              /\ NumReqs(inq') <= NumReqs(inq)
              /\ pc' # pc => <<pc, pc'>> \in CloseOrder]_vars

\* the parse error has propagated after one request was accepted; the pool
\* and the writer are gone
C20_Witness ==
    /\ exc = "ValueError"
    /\ pc = "done"
    /\ submitted # <<>>
    /\ AllExited

----------------------------------------------------------------------------
\* Codec specification: one worker and one request line, with every source
\* string up to MaxStrLen over a letter and the space, a source whose text
\* is the pill's, and every result decoder.translate can give.

Chars == {"a", " "}
Strings(n) == UNION { [1..k -> Chars] : k \in 0..n }
\* the string '__POISON_PILL__', as one unit of text
PillText == <<POISON_PILL>>
CodecSources == Strings(MaxStrLen) \cup {PillText}
CodecIds == {0, 1}
CodecLines == { [json |-> TRUE, id |-> i, source |-> s] : i \in CodecIds, s \in CodecSources }
\* translate returns the source tokens, an empty list or None, or raises
\* with or without a message
CodecOutcomes == {"tokens", "empty", "none", "raise_msg", "raise_nomsg"}

InitCodec == Init /\ nthreads = 1

ReadRequestCodec == submitted = <<>> /\ ReadRequestFrom(CodecLines)

\* lines 75-82 for any result of translate
WorkerRespondCodec(w) ==
    /\ wpc[w] = "translate"
    /\ \E o \in CodecOutcomes :
          outq' = QueuePut(outq, RespElem(BuildResponse(wreq[w].value, o),
                                          [rid |-> wreq[w].tag, outcome |-> o]))
    /\ wpc' = [wpc EXCEPT ![w] = "get"]
    /\ wreq' = [wreq EXCEPT ![w] = NoReq]
    /\ UNCHANGED <<nthreads, pc, mi, exc, inq, ppc, presp, stdout, closed>>
    /\ UNCHANGED <<submitted, sources, emitted, dequeued, ndeq, interrupted>>

WorkerStepCodec(w) ==
    \/ WorkerGetRequest(w)
    \/ WorkerGetPoison(w)
    \/ WorkerRespondCodec(w)

NextCodec ==
    \/ ReadRequestCodec
    \/ MainStep
    \/ CloseStep
    \/ \E w \in Workers : WorkerStepCodec(w)
    \/ PrinterStep

SpecCodec == InitCodec /\ [][NextCodec]_vars

\* the responses in existence: on the response queue, in the writer's hands
\* or already written
Responses ==
    {outq[i].value : i \in {j \in 1..Len(outq) : outq[j].type = "TranslationResponse"}}
    \cup {dequeued[i].value : i \in 1..Len(dequeued)}
\* the response carries a translation / an error
HasTranslation(r) == r.translation # None
HasError(r) == r.error_type # None

\* C16: every response a worker has built carries exactly one of a
\* translation and an error, and every line on the output has exactly one
\* of the keys translation and error.
C16_ExactlyOneOfTranslationError ==
    /\ \A r \in Responses : HasTranslation(r) # HasError(r)
    /\ \A i \in 1..Len(stdout) :
           ("translation" \in DOMAIN stdout[i]) # ("error" \in DOMAIN stdout[i])

\* C17: a worker and the writer leave their loops only on dequeuing the
\* pill string, and the pill is on a queue only from _close on; a step of a
\* pool thread or the writer that dequeues a request or a response,
\* whatever its id and text, hands it to translate or to the write and
\* exits no thread.
C17_PillNeverCollides ==
    /\ [](Phase < 2 => NumPills(inq) = 0 /\ NumPills(outq) = 0)
    /\ [][\A w \in Workers : (wpc[w] # "exited" /\ wpc'[w] = "exited") =>
              /\ Phase >= 2
              /\ Head(inq).type = "str" /\ Head(inq).value = POISON_PILL]_vars
    /\ [][(ppc # "exited" /\ ppc' = "exited") =>
              /\ Phase >= 2
              /\ Head(outq).type = "str" /\ Head(outq).value = POISON_PILL]_vars
    /\ [][(pc' = pc /\ inq # <<>> /\ inq' = Tail(inq) /\ Head(inq).type # "str") =>
              /\ \E w \in Workers : wpc'[w] = "translate" /\ wreq'[w] = Head(inq)
              /\ \A w \in Workers : wpc'[w] = "exited" => wpc[w] = "exited"]_vars
    /\ [][(pc' = pc /\ outq # <<>> /\ outq' = Tail(outq) /\ Head(outq).type # "str") =>
              /\ ppc' = "write" /\ presp' = Head(outq)]_vars

\* a request whose source text is the pill's text went through the worker
\* and the writer: its translation is on the output, and the worker is
\* still in its loop
C17_Witness ==
    /\ Len(stdout) = 1
    /\ emitted[1].outcome = "tokens"
    /\ stdout[1].translation = PillText
    /\ wpc[1] = "get"
    /\ Phase = 1

\* C18: joining the tokens of a split source gives the source back, for
\* every source string; and a line written for a request whose translation
\* is its source tokens is the request's id with the request's source.
C18_IdentityRoundTrip ==
    /\ \A s \in CodecSources : join(split(s)) = s
    /\ \A i \in 1..Len(stdout) :
           emitted[i].outcome = "tokens" =>
               stdout[i] = [id |-> submitted[emitted[i].rid],
                            translation |-> sources[emitted[i].rid]]

\* the line written for a source with two consecutive spaces
C18_Witness ==
    /\ Len(stdout) = 1
    /\ emitted[1].outcome = "tokens"
    /\ sources[1] = <<"a", " ", " ">>
    /\ stdout[1].translation = <<"a", " ", " ">>

====
